---- MODULE Spec2Model ----
(***************************************************************************)
(* The Boggle analytics pipeline of notebooks/02. Exploring Analytics:     *)
(* load the game-records spreadsheet, derive point_overlap and             *)
(* sarah_points_potential per round, aggregate per game_date, label the    *)
(* winner, and save the round-level and the game-level table.              *)
(*                                                                         *)
(* A DataFrame is a record [columns, rows]: the column names in order and  *)
(* the rows in order, each row a function from column name to value.       *)
(***************************************************************************)
EXTENDS Integers, Sequences, FiniteSets, TLC

\* ------------------------------------------------------------- bounds
MaxRows == 2
MaxRuns == 2

\* ------------------------------------------------------- input domain
\* A missing game_date cell, as read_excel loads it.
NaT == 0
\* Two distinct game days (day numbers, ordered as dates are).
Dates == {1, 2}
\* Points of one round.
Points == 0..1

InputColumns ==
    <<"game_date", "trevor_points_scored", "trevor_points_potential", "sarah_points_scored">>

RequiredColumns == {InputColumns[i] : i \in 1..Len(InputColumns)}

RoundRows ==
    [game_date : Dates \cup {NaT},
     trevor_points_scored : Points,
     trevor_points_potential : Points,
     sarah_points_scored : Points]

\* Every spreadsheet of 1..MaxRows rounds with the four columns.
Inputs ==
    {[columns |-> InputColumns, rows |-> s] :
        s \in UNION {[1..n -> RoundRows] : n \in 1..MaxRows}}

\* The sheet with column c deleted.
DropColumn(sheet, c) ==
    [columns |-> SelectSeq(sheet.columns, LAMBDA x : x # c),
     rows |-> [i \in 1..Len(sheet.rows) |->
                 [x \in DOMAIN sheet.rows[i] \ {c} |-> sheet.rows[i][x]]]]

\* Two recorded rounds, of different days; the second has fewer potential
\* points than scored ones.
SampleRows ==
    {[game_date |-> 1, trevor_points_scored |-> 0, trevor_points_potential |-> 1,
      sarah_points_scored |-> 1],
     [game_date |-> 2, trevor_points_scored |-> 1, trevor_points_potential |-> 0,
      sarah_points_scored |-> 0]}

SampleSheets == {f \in Inputs : \A i \in 1..Len(f.rows) : f.rows[i] \in SampleRows}

\* The sheets the acquisition step may deposit between runs: the sample
\* sheets, and one-round sheets that lack one of the four columns.
RerunInputs ==
    SampleSheets \cup
    {DropColumn(f, c) : f \in {g \in SampleSheets : Len(g.rows) = 1}, c \in RequiredColumns}

\* ------------------------------------------------- DataFrame helpers
Undefined == [undefined |-> TRUE]
Absent == [absent |-> TRUE]

ColumnSet(df) == {df.columns[i] : i \in 1..Len(df.columns)}

\* pd.read_excel: the sheet's header and rows.
ReadExcel(file) == [columns |-> file.columns, rows |-> file.rows]

\* DataFrame.copy(): an independent frame with the same content.
Copy(df) == [columns |-> df.columns, rows |-> df.rows]

\* A column assignment that loses the first row.
SetColumnDropFirst(df, name, values) ==
    [columns |-> IF name \in ColumnSet(df) THEN df.columns ELSE Append(df.columns, name),
     rows |-> [i \in 1..(Len(df.rows) - 1) |->
                 [c \in DOMAIN df.rows[i + 1] \cup {name} |->
                     IF c = name THEN values[i + 1] ELSE df.rows[i + 1][c]]]]

\* df[name] = values: a new column is appended, an existing one replaced in
\* place; rows keep their number and order.
SetColumn(df, name, values) ==
    [columns |-> IF name \in ColumnSet(df) THEN df.columns ELSE Append(df.columns, name),
     rows |-> [i \in 1..Len(df.rows) |->
                 [c \in DOMAIN df.rows[i] \cup {name} |->
                     IF c = name THEN values[i] ELSE df.rows[i][c]]]]

\* The overlap with its operands exchanged.
PointOverlapSwapped(row) == row.trevor_points_scored - row.trevor_points_potential

\* lambda row: row.trevor_points_potential - row.trevor_points_scored
PointOverlap(row) == row.trevor_points_potential - row.trevor_points_scored

\* Sarah's potential taken from Trevor's potential instead of the overlap.
SarahPotentialFromTrevor(row) == row.sarah_points_scored + row.trevor_points_potential

\* lambda row: row.sarah_points_scored + row.point_overlap
SarahPotential(row) == row.sarah_points_scored + row.point_overlap

\* ---------------------------------------------------------- aggregation
RECURSIVE SeqSum(_)
SeqSum(s) == IF s = <<>> THEN 0 ELSE Head(s) + SeqSum(Tail(s))

RECURSIVE SeqMin(_)
SeqMin(s) ==
    IF Len(s) = 1 THEN Head(s)
    ELSE LET m == SeqMin(Tail(s)) IN IF Head(s) < m THEN Head(s) ELSE m

RECURSIVE SeqMax(_)
SeqMax(s) ==
    IF Len(s) = 1 THEN Head(s)
    ELSE LET m == SeqMax(Tail(s)) IN IF Head(s) > m THEN Head(s) ELSE m

ColumnValues(rows, c) == [i \in 1..Len(rows) |-> rows[i][c]]

RECURSIVE SortedSeq(_)
SortedSeq(S) ==
    IF S = {} THEN <<>>
    ELSE LET m == CHOOSE x \in S : \A y \in S : x <= y
         IN <<m>> \o SortedSeq(S \ {m})

\* One key per round instead of one per distinct date.
GroupKeysPerRow(df) ==
    LET present == SelectSeq(df.rows, LAMBDA r : r.game_date # NaT)
    IN [i \in 1..Len(present) |-> present[i].game_date]

\* groupby("game_date"): the distinct keys in ascending order; rows whose key
\* is missing are left out (dropna defaults to True).
GroupKeys(df) == SortedSeq({df.rows[i].game_date : i \in 1..Len(df.rows)} \ {NaT})

\* A group that takes every round, whatever its date.
GroupRowsAll(df, k) == df.rows

\* The rounds of the group with key k, in row order.
GroupRows(df, k) == SelectSeq(df.rows, LAMBDA r : r.game_date = k)

AggColumns ==
    <<"trevor_total_points", "trevor_min_scoring_round", "trevor_max_scoring_round",
      "sarah_total_points", "sarah_min_scoring_round", "sarah_max_scoring_round">>

\* .agg(...): the six named aggregations of one group.
AggRow(rows) ==
    LET t == ColumnValues(rows, "trevor_points_scored")
        s == ColumnValues(rows, "sarah_points_scored")
    IN [trevor_total_points |-> SeqSum(t),
        trevor_min_scoring_round |-> SeqMin(t),
        trevor_max_scoring_round |-> SeqMax(t),
        sarah_total_points |-> SeqSum(s),
        sarah_min_scoring_round |-> SeqMin(s),
        sarah_max_scoring_round |-> SeqMax(s)]

\* groupby("game_date").agg(...): indexed by the group key.
GroupByAgg(df) ==
    LET keys == GroupKeys(df)
    IN [index |-> keys,
        columns |-> AggColumns,
        rows |-> [i \in 1..Len(keys) |-> AggRow(GroupRows(df, keys[i]))]]

\* .reset_index(): the group key becomes the first column.
ResetIndex(g) ==
    [columns |-> <<"game_date">> \o g.columns,
     rows |-> [i \in 1..Len(g.rows) |->
                 [c \in DOMAIN g.rows[i] \cup {"game_date"} |->
                     IF c = "game_date" THEN g.index[i] ELSE g.rows[i][c]]]]

\* A winner rule that gives a tie to Trevor.
WinnerTieToTrevor(row) ==
    IF row.trevor_total_points >= row.sarah_total_points THEN "Trevor" ELSE "Sarah"

\* lambda row: "Trevor" if row.trevor_total_points > row.sarah_total_points else "Sarah"
Winner(row) ==
    IF row.trevor_total_points > row.sarah_total_points THEN "Trevor" ELSE "Sarah"

\* A save that appends to the rows the file already holds.
ToExcelAppend(old, df) ==
    IF old = Absent THEN [columns |-> df.columns, rows |-> df.rows]
    ELSE [columns |-> df.columns, rows |-> old.rows \o df.rows]

\* to_excel(path, index=False): the file is replaced by the frame's header
\* and rows.
ToExcel(old, df) == [columns |-> df.columns, rows |-> df.rows]

\* The two saves in the opposite order.
SaveSequenceGameFirst == <<"game", "round">>

\* The order of the two to_excel calls of the saving cell.
SaveSequence == <<"round", "game">>

SavePc(f) == IF SaveSequence[1] = f THEN "save1" ELSE "save2"

AfterSave(p) == IF p = "save1" THEN "save2" ELSE "done"

\* A run that goes on to the next cell after an error.
NextCellAllowErrors(cell, ok) == IF cell = "transform" THEN "aggregate" ELSE "save1"

\* Cells run in order; a cell that raises halts the run.
NextCell(cell, ok) ==
    IF ~ok THEN "error"
    ELSE IF cell = "transform" THEN "aggregate" ELSE "save1"

\* ------------------------------------------------------------- state
VARIABLES
    inputFile,            \* data/boggle-game-records.xlsx
    raw_boggle_data_df,
    boggle_data_df,
    game_level_stats_df,
    roundLevelFile,       \* data/round-level-stats.xlsx
    gameLevelFile,        \* data/game-level-stats.xlsx
    pc,                   \* the cell the run is about to execute
    errorAt,              \* the cell whose exception halted the run
    run,                  \* number of the current run
    written,              \* history: the files this run has written
    startFiles,           \* history: the two files as this run found them
    prevDone              \* history: input and files of the last completed run

vars ==
    <<inputFile, raw_boggle_data_df, boggle_data_df, game_level_stats_df,
      roundLevelFile, gameLevelFile, pc, errorAt, run, written, startFiles, prevDone>>

kernel == <<raw_boggle_data_df, boggle_data_df, game_level_stats_df>>
files == <<roundLevelFile, gameLevelFile>>
history == <<run, written, startFiles, prevDone>>

NoRun == [none |-> TRUE]

InitWith(I) ==
    /\ inputFile \in I
    /\ raw_boggle_data_df = Undefined
    /\ boggle_data_df = Undefined
    /\ game_level_stats_df = Undefined
    /\ roundLevelFile = Absent
    /\ gameLevelFile = Absent
    /\ pc = "transform"
    /\ errorAt = "none"
    /\ run = 1
    /\ written = {}
    /\ startFiles = [round |-> Absent, game |-> Absent]
    /\ prevDone = NoRun

Init == InitWith(Inputs)

\* Cell "Loading and Transforming Data".
LoadAndTransform ==
    /\ pc = "transform"
    /\ LET raw == ReadExcel(inputFile)
           copy == Copy(raw)
           overlapOk == {"trevor_points_potential", "trevor_points_scored"} \subseteq ColumnSet(copy)
           withOverlap == SetColumn(copy, "point_overlap", [i \in 1..Len(copy.rows) |-> PointOverlap(copy.rows[i])])
           potentialOk == "sarah_points_scored" \in ColumnSet(copy)
           withPotential ==
               SetColumn(withOverlap, "sarah_points_potential", 
                   [i \in 1..Len(withOverlap.rows) |-> SarahPotential(withOverlap.rows[i])])
       IN /\ raw_boggle_data_df' = raw
          /\ boggle_data_df' =
                IF ~overlapOk THEN copy
                ELSE IF ~potentialOk THEN withOverlap
                ELSE withPotential
          /\ pc' = NextCell("transform", overlapOk /\ potentialOk)
          /\ errorAt' = IF overlapOk /\ potentialOk THEN errorAt ELSE "transform"
    /\ UNCHANGED <<inputFile, game_level_stats_df, files, history>>

\* Cell "Calculating Game-Level Statistics".
Aggregate ==
    /\ pc = "aggregate"
    /\ LET keyOk == "game_date" \in ColumnSet(boggle_data_df)
           stats == ResetIndex(GroupByAgg(boggle_data_df))
       IN /\ game_level_stats_df' =
                IF keyOk THEN SetColumn(stats, "winner", [i \in 1..Len(stats.rows) |-> Winner(stats.rows[i])])
                ELSE game_level_stats_df
          /\ pc' = NextCell("aggregate", keyOk)
          /\ errorAt' = IF keyOk THEN errorAt ELSE "aggregate"
    /\ UNCHANGED <<inputFile, raw_boggle_data_df, boggle_data_df, files, history>>

\* Cell "Saving Data", first statement.
SaveRound ==
    /\ pc = SavePc("round")
    /\ roundLevelFile' = ToExcel(roundLevelFile, boggle_data_df)
    /\ written' = written \cup {"round"}
    /\ pc' = AfterSave(pc)
    /\ UNCHANGED <<inputFile, kernel, gameLevelFile, errorAt, run, startFiles, prevDone>>

\* Cell "Saving Data", second statement.
SaveGame ==
    /\ pc = SavePc("game")
    /\ gameLevelFile' = ToExcel(gameLevelFile, game_level_stats_df)
    /\ written' = written \cup {"game"}
    /\ pc' = AfterSave(pc)
    /\ UNCHANGED <<inputFile, kernel, roundLevelFile, errorAt, run, startFiles, prevDone>>

Next == LoadAndTransform \/ Aggregate \/ SaveRound \/ SaveGame

Spec == Init /\ [][Next]_vars

\* ------------------------------------------------------ repeated runs
Running == {"transform", "aggregate", "save1", "save2"}
Ended == {"done", "error", "crashed"}

\* The process dies between two statements.
Crash ==
    /\ pc \in Running
    /\ pc' = "crashed"
    /\ UNCHANGED <<inputFile, kernel, files, errorAt, history>>

\* Notebook 01: the sheet is downloaded again over the input file.
Acquire ==
    /\ pc \in Ended
    /\ run < MaxRuns
    /\ inputFile' \in RerunInputs
    /\ UNCHANGED <<kernel, files, pc, errorAt, history>>

\* The notebook is run again in a fresh kernel.
Rerun ==
    /\ pc \in Ended
    /\ run < MaxRuns
    /\ raw_boggle_data_df' = Undefined
    /\ boggle_data_df' = Undefined
    /\ game_level_stats_df' = Undefined
    /\ pc' = "transform"
    /\ errorAt' = "none"
    /\ run' = run + 1
    /\ written' = {}
    /\ startFiles' = [round |-> roundLevelFile, game |-> gameLevelFile]
    /\ prevDone' =
          IF pc = "done"
          THEN [input |-> raw_boggle_data_df, round |-> roundLevelFile, game |-> gameLevelFile]
          ELSE prevDone
    /\ UNCHANGED <<inputFile, files>>

InitRerun == InitWith(RerunInputs)

NextRerun == Next \/ Crash \/ Acquire \/ Rerun

SpecRerun == InitRerun /\ [][NextRerun]_vars

\* ------------------------------------------------------------ claims
Defined(df) == df # Undefined
Present(file) == file # Absent

\* The derivation cell ran to its end in this run.
Derived ==
    /\ Defined(boggle_data_df)
    /\ "sarah_points_potential" \in ColumnSet(boggle_data_df)

\* The aggregation cell ran to its end in this run.
Aggregated == Defined(game_level_stats_df)

\* The round-level tables there are: the frame, and the file this run wrote.
RoundTables ==
    (IF Derived THEN {boggle_data_df} ELSE {}) \cup
    (IF "round" \in written THEN {roundLevelFile} ELSE {})

\* The game-level tables there are: the frame, and the file this run wrote.
GameTables ==
    (IF Aggregated THEN {game_level_stats_df} ELSE {}) \cup
    (IF "game" \in written THEN {gameLevelFile} ELSE {})

RowsOf(t) == {t.rows[i] : i \in 1..Len(t.rows)}

RECURSIVE SumOver(_, _, _)
SumOver(I, rows, c) ==
    IF I = {} THEN 0
    ELSE LET i == CHOOSE x \in I : TRUE
         IN rows[i][c] + SumOver(I \ {i}, rows, c)

\* The rounds of boggle_data_df played on date d.
RoundsOn(d) == {i \in 1..Len(boggle_data_df.rows) : boggle_data_df.rows[i].game_date = d}

IsMinOver(m, I, c) ==
    /\ \E i \in I : boggle_data_df.rows[i][c] = m
    /\ \A i \in I : m <= boggle_data_df.rows[i][c]

IsMaxOver(m, I, c) ==
    /\ \E i \in I : boggle_data_df.rows[i][c] = m
    /\ \A i \in I : m >= boggle_data_df.rows[i][c]

\* C1: on every row of the game-level table winner is "Trevor" exactly when
\* trevor_total_points > sarah_total_points, and "Sarah" in every other case,
\* a tie included; it is never another value.
C1_WinnerStrictlyGreater ==
    \A t \in GameTables : \A g \in RowsOf(t) :
        /\ g.winner \in {"Trevor", "Sarah"}
        /\ (g.winner = "Trevor") <=> (g.trevor_total_points > g.sarah_total_points)
        /\ (g.trevor_total_points = g.sarah_total_points) => g.winner = "Sarah"

\* C1 witness: the saved game-level table holds a tied game, won by Sarah,
\* and a game Trevor won.
C1_Witness ==
    /\ pc = "done"
    /\ \E g \in RowsOf(gameLevelFile) :
          g.trevor_total_points = g.sarah_total_points /\ g.trevor_total_points > 0
    /\ \E g \in RowsOf(gameLevelFile) : g.winner = "Trevor"

\* C2: for every game and each player, the game row's total is the sum, its
\* min_scoring_round the minimum and its max_scoring_round the maximum of the
\* player's points_scored over exactly the rounds that carry the game's date.
C2_GameRowAggregatesItsRounds ==
    Aggregated =>
        \A g \in RowsOf(game_level_stats_df) :
            LET I == RoundsOn(g.game_date)
            IN /\ I # {}
               /\ g.trevor_total_points = SumOver(I, boggle_data_df.rows, "trevor_points_scored")
               /\ g.sarah_total_points = SumOver(I, boggle_data_df.rows, "sarah_points_scored")
               /\ IsMinOver(g.trevor_min_scoring_round, I, "trevor_points_scored")
               /\ IsMaxOver(g.trevor_max_scoring_round, I, "trevor_points_scored")
               /\ IsMinOver(g.sarah_min_scoring_round, I, "sarah_points_scored")
               /\ IsMaxOver(g.sarah_max_scoring_round, I, "sarah_points_scored")

\* C2 witness: two games, one of them of two rounds with different scores:
\* its total is above its maximum, and its minimum below its maximum.
C2_Witness ==
    /\ Aggregated
    /\ Len(boggle_data_df.rows) > Len(game_level_stats_df.rows)
    /\ \E g \in RowsOf(game_level_stats_df) :
          /\ g.trevor_min_scoring_round < g.trevor_max_scoring_round
          /\ g.sarah_total_points > g.sarah_max_scoring_round

\* The dates of the rounds; a missing date is no date value.
RoundDates == {r.game_date : r \in RowsOf(boggle_data_df)} \ {NaT}

\* C3: the game-level table holds exactly one row for each distinct game_date
\* value of the round-level table: no date in two rows, every date of the
\* rounds in some row, no row with a date the rounds do not have. (A round
\* whose game_date cell is empty carries no date value.)
C3_OneRowPerDistinctDate ==
    Aggregated =>
        LET g == game_level_stats_df.rows
        IN /\ \A i, j \in 1..Len(g) : g[i].game_date = g[j].game_date => i = j
           /\ \A d \in RoundDates : \E i \in 1..Len(g) : g[i].game_date = d
           /\ \A i \in 1..Len(g) : g[i].game_date \in RoundDates

\* C3 witness: two rounds of one date have given one game row.
C3_Witness ==
    /\ Aggregated
    /\ Len(game_level_stats_df.rows) = 1
    /\ \E i, j \in 1..Len(boggle_data_df.rows) :
          /\ i # j
          /\ boggle_data_df.rows[i].game_date = boggle_data_df.rows[j].game_date
          /\ boggle_data_df.rows[i].game_date # NaT

\* C4: on every round row after derivation, point_overlap is
\* trevor_points_potential - trevor_points_scored and sarah_points_potential is
\* sarah_points_scored + point_overlap, so Sarah's gap between potential and
\* scored equals Trevor's on the same row.
C4_DerivedColumns ==
    \A t \in RoundTables : \A r \in RowsOf(t) :
        /\ r.point_overlap = r.trevor_points_potential - r.trevor_points_scored
        /\ r.sarah_points_potential = r.sarah_points_scored + r.point_overlap
        /\ r.sarah_points_potential - r.sarah_points_scored =
              r.trevor_points_potential - r.trevor_points_scored

\* C4 witness: a saved round with a positive overlap and points scored by
\* Sarah.
C4_Witness ==
    /\ "round" \in written
    /\ \E r \in RowsOf(roundLevelFile) :
          r.point_overlap = 1 /\ r.sarah_points_scored = 1 /\ r.sarah_points_potential = 2

\* C5: derivation changes nothing but the two appended columns: the
\* round-level table has the input's rows, as many and in the same order, every
\* input column with its value on every row, and raw_boggle_data_df is still
\* the table that was loaded.
C5_DerivationFrame ==
    /\ Defined(raw_boggle_data_df) =>
          /\ raw_boggle_data_df.columns = inputFile.columns
          /\ raw_boggle_data_df.rows = inputFile.rows
    /\ \A t \in RoundTables :
          /\ t.columns = inputFile.columns \o <<"point_overlap", "sarah_points_potential">>
          /\ Len(t.rows) = Len(inputFile.rows)
          /\ \A i \in 1..Len(t.rows) : \A c \in ColumnSet(inputFile) :
                t.rows[i][c] = inputFile.rows[i][c]

\* C5 witness: a saved round-level table of two different rounds.
C5_Witness ==
    /\ pc = "done"
    /\ Len(roundLevelFile.rows) = 2
    /\ inputFile.rows[1] # inputFile.rows[2]

\* C7 as stated: point_overlap is non-negative on every row of the
\* round-level output.
C7_OverlapNonNegative ==
    \A t \in RoundTables : \A r \in RowsOf(t) : r.point_overlap >= 0

\* C7 as amended: point_overlap is non-negative on exactly the rows whose
\* trevor_points_potential is at least trevor_points_scored, and negative on
\* the others; no row is rejected.
C7_OverlapSignFollowsInput ==
    \A t \in RoundTables :
        /\ Len(t.rows) = Len(inputFile.rows)
        /\ \A r \in RowsOf(t) :
              (r.point_overlap >= 0) <=> (r.trevor_points_potential >= r.trevor_points_scored)

\* C7 witness: a saved round with a negative overlap beside one with a
\* positive overlap.
C7_Witness ==
    /\ "round" \in written
    /\ \E r \in RowsOf(roundLevelFile) : r.point_overlap < 0
    /\ \E r \in RowsOf(roundLevelFile) : r.point_overlap > 0

\* C10: aggregation neither drops nor double-counts a round: for each player
\* the game-level totals add up to the player's points_scored over all round
\* rows, rows with a missing game_date included.
C10_TotalsAccountForEveryRound ==
    Aggregated =>
        LET g == game_level_stats_df.rows
            r == boggle_data_df.rows
        IN /\ SumOver(DOMAIN g, g, "trevor_total_points") =
                 SumOver(DOMAIN r, r, "trevor_points_scored")
           /\ SumOver(DOMAIN g, g, "sarah_total_points") =
                 SumOver(DOMAIN r, r, "sarah_points_scored")

\* What the input sheet lacks, once it is loaded.
MissingColumns == RequiredColumns \ ColumnSet(raw_boggle_data_df)

FilesAsFound ==
    /\ written = {}
    /\ roundLevelFile = startFiles.round
    /\ gameLevelFile = startFiles.game

\* C6: a run over the input of the last completed run leaves both output
\* files with exactly the rows they had after that run.
C6_RerunIdempotent ==
    (pc = "done" /\ prevDone # NoRun /\ prevDone.input = raw_boggle_data_df) =>
        /\ roundLevelFile = prevDone.round
        /\ gameLevelFile = prevDone.game

\* C6 witness: a second run has completed on the input of the first, which
\* had rounds of two games.
C6_Witness ==
    /\ pc = "done"
    /\ prevDone # NoRun
    /\ prevDone.input = raw_boggle_data_df
    /\ Len(gameLevelFile.rows) = 2

\* C8 as stated: an input that lacks any of the four required columns fails
\* the derivation step, which halts the run with no output file written or
\* changed.
C8_DerivationFailsOnAnyMissingColumn ==
    (Defined(raw_boggle_data_df) /\ MissingColumns # {}) =>
        /\ pc = "error"
        /\ errorAt = "transform"
        /\ FilesAsFound

\* C8 as amended: a missing trevor_points_scored, trevor_points_potential or
\* sarah_points_scored fails the derivation step; a missing game_date lets
\* derivation finish and fails the aggregation step; either failure halts the
\* run before the saving cell, and no output file is written or changed.
C8_MissingColumnHaltsBeforeSave ==
    (Defined(raw_boggle_data_df) /\ MissingColumns # {}) =>
        /\ FilesAsFound
        /\ pc \notin {"save1", "save2", "done"}
        /\ (MissingColumns # {"game_date"}) =>
              /\ pc = "error"
              /\ errorAt = "transform"
              /\ ~Aggregated
        /\ (MissingColumns = {"game_date"}) =>
              /\ Derived
              /\ pc \in {"aggregate", "error", "crashed"}
              /\ (pc = "error") => errorAt = "aggregate"
              /\ (pc = "aggregate") => errorAt = "none"
              /\ ~Aggregated

\* C8 witness: a run over a sheet without game_date has halted in the
\* aggregation step, with both files of an earlier run in place.
C8_Witness ==
    /\ pc = "error"
    /\ errorAt = "aggregate"
    /\ MissingColumns = {"game_date"}
    /\ Present(roundLevelFile)
    /\ Present(gameLevelFile)

\* The content a save of df leaves in a file.
Saved(df) == [columns |-> df.columns, rows |-> df.rows]

\* C9: the round-level file is written first and the game-level file second,
\* with nothing atomic across the two: between the writes the round-level file
\* holds this run's rows while the game-level file is still the one the run
\* found (or absent), and the game-level file is never written while the
\* round-level file is not.
C9_RoundFileWrittenFirst ==
    /\ ("game" \in written) => ("round" \in written)
    /\ (written = {"round"}) =>
          /\ pc \in {"save2", "crashed"}
          /\ roundLevelFile = Saved(boggle_data_df)
          /\ gameLevelFile = startFiles.game
    /\ (pc = "done") =>
          /\ written = {"round", "game"}
          /\ roundLevelFile = Saved(boggle_data_df)
          /\ gameLevelFile = Saved(game_level_stats_df)

\* C9 witness: a run has crashed between the two writes: the round-level
\* file is new, the game-level file is an earlier run's and does not match it.
C9_Witness ==
    /\ pc = "crashed"
    /\ written = {"round"}
    /\ roundLevelFile # startFiles.round
    /\ Present(gameLevelFile)
    /\ gameLevelFile # Saved(game_level_stats_df)

====
